---- MODULE Spec2Model ----
(***************************************************************************)
(* Segment-chain resolver and light-time solver of skyfield/ephemerislib.py *)
(* (Body, Geometry, Solution, _connect, _center, _tally).                   *)
(*                                                                          *)
(* Vectors are integer 3-tuples.  Times are integers (the TDB value of the  *)
(* date).  Light-time is counted in units of the solver's tolerance         *)
(* (1e-12 day), so that "within tolerance" is "differs by less than 1".     *)
(***************************************************************************)
EXTENDS Integers, Sequences, FiniteSets, TLC

\* ---------------------------------------------------------------- bounds
\* Query times are LastTime - TimeSpan .. LastTime.
TimeSpan == 1
\* The generator _center is followed for at most MaxWalk yields (it has no
\* bound of its own; on a cyclic registry it never ends).
MaxWalk == 4
\* The shared segment list is let grow to at most MaxSegLen entries.
MaxSegLen == 14

\* ------------------------------------------------------------- constants
LastTime == 5
\* for i in range(10)
MaxRounds == 10
\* 1e-12, in units of 1e-12 day
Tolerance == 1
\* speed of light, distance units per light-time unit
C_AUDAY == 2

Times == (LastTime - TimeSpan)..LastTime

\* ---------------------------------------------------------------- vectors
Zero3 == <<0, 0, 0>>
VAdd(a, b) == <<a[1] + b[1], a[2] + b[2], a[3] + b[3]>>
VSub(a, b) == <<a[1] - b[1], a[2] - b[2], a[3] - b[3]>>

ISqrt(n) == CHOOSE r \in 0..n : r * r <= n /\ (r + 1) * (r + 1) > n

\* functions.length_of: Euclidean norm (rounded down to the integer grid)
length_of(v) == ISqrt(v[1] * v[1] + v[2] * v[2] + v[3] * v[3])

\* ---------------------------------------------------------------- segments
\* Segment = namedtuple('Segment', 'center target compute')
Segment(c, t, k) == [center |-> c, target |-> t, compute |-> k]

\* The segments an ephemeris may supply.  S1 and S2 are the two segments of
\* the documented scenario; "osc" never settles; 7 <-> 8 is a cycle.
Universe ==
    << Segment(0, 3, "S1"),
       Segment(3, 399, "S2"),
       Segment(3, 301, "osc"),
       Segment(0, 4, "fixedA"),
       Segment(4, 499, "fixedB"),
       Segment(7, 8, "fixedC"),
       Segment(8, 7, "fixedC") >>

Codes == {0, 3, 399, 301, 4, 499, 8}

\* segment.compute(jd) -> (position, velocity)
compute(seg, jd) ==
    CASE seg.compute = "S1"     -> << <<jd, 0, 0>>, <<1, 0, 0>> >>
      [] seg.compute = "S2"     -> << <<0, 1, 0>>, <<0, 0, 0>> >>
      [] seg.compute = "osc"    -> << <<0, IF jd % 2 = 0 THEN 2 ELSE 4, 0>>, <<0, 0, 0>> >>
      [] seg.compute = "fixedA" -> << <<0, 0, 3>>, <<0, 0, 0>> >>
      [] seg.compute = "fixedB" -> << <<4, 0, 0>>, <<0, 1, 0>> >>
      [] seg.compute = "fixedC" -> << <<1, 0, 0>>, <<0, 0, 0>> >>

\* The sub-sequence of Universe selected by the index set I, in order.
RECURSIVE Pick(_, _)
Pick(I, n) ==
    IF n = 0 THEN << >>
    ELSE IF n \in I THEN Append(Pick(I, n - 1), Universe[n])
         ELSE Pick(I, n - 1)

Ephemerides == { Pick(I, Len(Universe)) : I \in SUBSET (1..Len(Universe)) }

\* ------------------------------------------------------------- registry
\* dict((segment.target, segment) for segment in segments): last one wins
Targets(segs) == { segs[k].target : k \in 1..Len(segs) }
LastIndex(segs, c) ==
    CHOOSE k \in 1..Len(segs) :
        /\ segs[k].target = c
        /\ \A j \in (k + 1)..Len(segs) : segs[j].target # c
segment_dict(segs) == [c \in Targets(segs) |-> segs[LastIndex(segs, c)]]

RECURSIVE Reverse(_)
Reverse(s) == IF s = << >> THEN << >> ELSE Append(Reverse(Tail(s)), Head(s))

\* ---------------------------------------------------------------- _tally
RECURSIVE SumChain(_, _, _)
SumChain(ch, jd, acc) ==
    IF ch = << >> THEN acc
    ELSE LET pv == compute(Head(ch), jd)
         IN SumChain(Tail(ch), jd, << VAdd(acc[1], pv[1]), VAdd(acc[2], pv[2]) >>)

RECURSIVE SubChain(_, _, _)
SubChain(ch, jd, acc) ==
    IF ch = << >> THEN acc
    ELSE LET pv == compute(Head(ch), jd)
         IN SubChain(Tail(ch), jd, << VSub(acc[1], pv[1]), VSub(acc[2], pv[2]) >>)

\* A sign slip: the plus chain is subtracted as well.
Tally_PlusSubtracted(minus_chain, plus_chain, jd) ==
    SubChain(plus_chain, jd, SubChain(minus_chain, jd, << Zero3, Zero3 >>))

Tally(minus_chain, plus_chain, jd) ==
    SumChain(plus_chain, jd, SubChain(minus_chain, jd, << Zero3, Zero3 >>))

\* --------------------------------------------------------------- _connect
\* i = sum(1 for s1, s2 in zip(segments1, segments2) if s1.target == s2.target)
Min(a, b) == IF a < b THEN a ELSE b
MatchCount(segments1, segments2) ==
    Cardinality({ k \in 1..Min(Len(segments1), Len(segments2)) :
                      segments1[k].target = segments2[k].target })

Drop(s, i) == SubSeq(s, i + 1, Len(s))

\* "IndexError" for segmentsN[0] on an empty chain, "ValueError" for
\* different centers, else the pair of suffixes.
Connect(segments1, segments2) ==
    IF segments1 = << >> \/ segments2 = << >> THEN [raised |-> "IndexError"]
    ELSE IF segments1[1].center # segments2[1].center THEN [raised |-> "ValueError"]
    ELSE LET i == MatchCount(segments1, segments2)
         IN [raised |-> "None",
             center_chain |-> Drop(segments1, i),
             target_chain |-> Drop(segments2, i)]

\* ------------------------------------------------------------ light-time
\* The division by the speed of light left out.
LightTime_NoDivision(distance) == distance

\* lighttime = distance / C_AUDAY
LightTime(distance) == distance \div C_AUDAY

\* -1e-12 < min(delta) and max(delta) < 1e-12
Converged(delta) == -Tolerance < delta /\ delta < Tolerance

\* The light-time added instead of subtracted.
DelayedTime_Advanced(jd_tdb, lighttime) == jd_tdb + lighttime

\* JulianDate(tdb=jd_tdb - lighttime)
DelayedTime(jd_tdb, lighttime) == jd_tdb - lighttime

\* One round too many.
RoundsLeft_OffByOne(i) == i <= MaxRounds

\* for i in range(10): the loop body runs while i < 10
RoundsLeft(i) == i < MaxRounds

\* cls = Barycentric if self.center == 0 else ICRS
GeometryClass(center) == IF center = 0 THEN "Barycentric" ELSE "ICRS"

\* cls = Barycentric if self.center == 0 else Astrometric
SolutionClass(center) == IF center = 0 THEN "Barycentric" ELSE "Astrometric"

\* segments += body.segments: a list is extended in place, a tuple is not
Extended(segs, more, inPlace) == IF inPlace THEN segs \o more ELSE segs

\* ------------------------------------------------------------------ state
VARIABLES
    segments,   \* ephemeris.segments, the one collection every Body refers to
    isList,     \* whether that collection is a list (mutable) or a tuple
    pc,         \* "idle", "center" (inside _center), "solve" (inside the
                \* light-time loop), "done" (a call has returned or raised)
    call,       \* the call in progress, or the last one made
    every,      \* the local segment collection the registry is built from
    walk,       \* which chain _center is producing: 1 (self) or 2 (other)
    code,       \* _center's loop variable
    chain,      \* the segments _center has yielded so far (target to root)
    chain1,     \* the finished first chain (root to target)
    obj,        \* the Geometry or Solution last returned
    result,     \* the position object last returned
    raised,     \* the exception the last call ended with, or "None"
    solve       \* the locals of Solution.at

vars == << segments, isList, pc, call, every, walk, code, chain, chain1,
           obj, result, raised, solve >>

NoCall == [op |-> "none", self |-> 0, other |-> 0, jd |-> 0, asBody |-> FALSE]
NoObj == [kind |-> "None", center |-> 0, target |-> 0,
          center_chain |-> << >>, target_chain |-> << >>]
NoResult == [kind |-> "None", position |-> Zero3, velocity |-> Zero3,
             lighttime |-> 0, observer_position |-> Zero3,
             observer_velocity |-> Zero3]
NoSolve == [i |-> 0, cposition |-> Zero3, cvelocity |-> Zero3,
            tposition |-> Zero3, tvelocity |-> Zero3, distance |-> 0,
            lighttime0 |-> 0, lighttime |-> 0,
            center_tallies |-> 0, target_tallies |-> 0]

Init ==
    /\ segments \in Ephemerides
    /\ isList \in BOOLEAN
    /\ pc = "idle"
    /\ call = NoCall
    /\ every = << >>
    /\ walk = 1
    /\ code = 0
    /\ chain = << >>
    /\ chain1 = << >>
    /\ obj = NoObj
    /\ result = NoResult
    /\ raised = "None"
    /\ solve = NoSolve

\* ------------------------------------------------------------ Body calls
\* Body.at, up to the first step of _center
CallAt(c, jd) ==
    /\ pc = "idle"
    /\ pc' = "center"
    /\ call' = [op |-> "at", self |-> c, other |-> c, jd |-> jd, asBody |-> TRUE]
    /\ every' = segments
    /\ walk' = 1
    /\ code' = c
    /\ chain' = << >>
    /\ chain1' = << >>
    /\ obj' = NoObj
    /\ result' = NoResult
    /\ raised' = "None"
    /\ solve' = NoSolve
    /\ UNCHANGED << segments, isList >>

\* Body.geometry_of and _connect, up to the first step of _center
CallGeometryOf(c, b) ==
    /\ pc = "idle"
    /\ pc' = "center"
    /\ call' = [op |-> "geometry_of", self |-> c, other |-> b, jd |-> 0, asBody |-> TRUE]
    /\ every' = segments \o segments
    /\ walk' = 1
    /\ code' = c
    /\ chain' = << >>
    /\ chain1' = << >>
    /\ obj' = NoObj
    /\ result' = NoResult
    /\ raised' = "None"
    /\ solve' = NoSolve
    /\ UNCHANGED << segments, isList >>

\* Body.observe, up to the first step of _center.  asBody: the argument is a
\* Body (of this ephemeris) rather than a name to decode.
CallObserve(c, b, asBody) ==
    /\ pc = "idle"
    /\ asBody /\ isList => 2 * Len(segments) <= MaxSegLen
    /\ pc' = "center"
    /\ call' = [op |-> "observe", self |-> c, other |-> b, jd |-> 0, asBody |-> asBody]
    /\ segments' = IF asBody THEN Extended(segments, segments, isList) ELSE segments
    /\ every' = IF asBody THEN segments \o segments ELSE segments
    /\ walk' = 1
    /\ code' = c
    /\ chain' = << >>
    /\ chain1' = << >>
    /\ obj' = NoObj
    /\ result' = NoResult
    /\ raised' = "None"
    /\ solve' = NoSolve
    /\ UNCHANGED isList

\* _center: while code in segment_dict: yield segment; code = segment.center
CenterStep ==
    /\ pc = "center"
    /\ code \in DOMAIN segment_dict(every)
    /\ Len(chain) < MaxWalk
    /\ chain' = Append(chain, segment_dict(every)[code])
    /\ code' = segment_dict(every)[code].center
    /\ UNCHANGED << segments, isList, pc, call, every, walk, chain1, obj,
                    result, raised, solve >>

\* the first list(_center(...))[::-1] is complete; start the second
NextChain ==
    /\ pc = "center"
    /\ code \notin DOMAIN segment_dict(every)
    /\ call.op \in {"geometry_of", "observe"}
    /\ walk = 1
    /\ chain1' = Reverse(chain)
    /\ chain' = << >>
    /\ code' = call.other
    /\ walk' = 2
    /\ UNCHANGED << segments, isList, pc, call, every, obj, result, raised, solve >>

\* Body.at, from the end of _center: _tally((), chain, jd)
ReturnAt ==
    /\ pc = "center"
    /\ code \notin DOMAIN segment_dict(every)
    /\ call.op = "at"
    /\ LET pv == Tally(<< >>, Reverse(chain), call.jd)
       IN result' = [NoResult EXCEPT !.kind = "Barycentric",
                                     !.position = pv[1], !.velocity = pv[2]]
    /\ pc' = "done"
    /\ UNCHANGED << segments, isList, call, every, walk, code, chain, chain1,
                    obj, raised, solve >>

\* _connect, from the end of the second _center, and Geometry(...)
ReturnGeometryOf ==
    /\ pc = "center"
    /\ code \notin DOMAIN segment_dict(every)
    /\ call.op = "geometry_of"
    /\ walk = 2
    /\ LET r == Connect(chain1, Reverse(chain))
       IN /\ raised' = r.raised
          /\ obj' = IF r.raised = "None"
                    THEN [kind |-> "Geometry", center |-> call.self,
                          target |-> call.other,
                          center_chain |-> r.center_chain,
                          target_chain |-> r.target_chain]
                    ELSE NoObj
    /\ pc' = "done"
    /\ UNCHANGED << segments, isList, call, every, walk, code, chain, chain1,
                    result, solve >>

\* if not center_chain[0].center == target_chain[0].center == 0: raise ValueError
ObserveCheck(center_chain, target_chain) ==
    IF center_chain = << >> \/ target_chain = << >> THEN "IndexError"
    ELSE IF ~(center_chain[1].center = target_chain[1].center
              /\ target_chain[1].center = 0) THEN "ValueError"
    ELSE "None"

\* Body.observe, from the end of the second _center
ReturnObserve ==
    /\ pc = "center"
    /\ code \notin DOMAIN segment_dict(every)
    /\ call.op = "observe"
    /\ walk = 2
    /\ LET target_chain == Reverse(chain)
           r == ObserveCheck(chain1, target_chain)
       IN /\ raised' = r
          /\ obj' = IF r = "None"
                    THEN [kind |-> "Solution", center |-> call.self,
                          target |-> call.other,
                          center_chain |-> chain1,
                          target_chain |-> target_chain]
                    ELSE NoObj
    /\ pc' = "done"
    /\ UNCHANGED << segments, isList, call, every, walk, code, chain, chain1,
                    result, solve >>

\* ------------------------------------------------------------ Geometry.at
GeometryAt(jd) ==
    /\ pc = "done"
    /\ obj.kind = "Geometry"
    /\ call' = [op |-> "geometry_at", self |-> obj.center, other |-> obj.target,
                jd |-> jd, asBody |-> TRUE]
    /\ LET pv == Tally(obj.center_chain, obj.target_chain, jd)
       IN result' = [NoResult EXCEPT !.kind = GeometryClass(obj.center),
                                     !.position = pv[1], !.velocity = pv[2]]
    /\ raised' = "None"
    /\ solve' = NoSolve
    /\ UNCHANGED << segments, isList, pc, every, walk, code, chain, chain1, obj >>

\* ------------------------------------------------------------ Solution.at
\* lines 120-124: the two nominal-time tallies and the first distance
SolutionAt(jd) ==
    /\ pc = "done"
    /\ obj.kind = "Solution"
    /\ call' = [op |-> "solution_at", self |-> obj.center, other |-> obj.target,
                jd |-> jd, asBody |-> TRUE]
    /\ LET c == Tally(<< >>, obj.center_chain, jd)
           t == Tally(<< >>, obj.target_chain, jd)
       IN solve' = [i |-> 0, cposition |-> c[1], cvelocity |-> c[2],
                    tposition |-> t[1], tvelocity |-> t[2],
                    distance |-> length_of(VSub(t[1], c[1])),
                    lighttime0 |-> 0, lighttime |-> 0,
                    center_tallies |-> 1, target_tallies |-> 1]
    /\ result' = NoResult
    /\ raised' = "None"
    /\ pc' = "solve"
    /\ UNCHANGED << segments, isList, every, walk, code, chain, chain1, obj >>

\* one round that does not converge: lines 126-133
SolveIterate ==
    /\ pc = "solve"
    /\ RoundsLeft(solve.i)
    /\ LET lighttime == LightTime(solve.distance)
           delta == lighttime - solve.lighttime0
           jd2 == DelayedTime(call.jd, lighttime)
           t == Tally(<< >>, obj.target_chain, jd2)
       IN /\ ~Converged(delta)
          /\ solve' = [solve EXCEPT !.i = @ + 1,
                                    !.lighttime = lighttime,
                                    !.tposition = t[1], !.tvelocity = t[2],
                                    !.distance = length_of(VSub(t[1], solve.cposition)),
                                    !.lighttime0 = lighttime,
                                    !.target_tallies = @ + 1]
    /\ UNCHANGED << segments, isList, pc, call, every, walk, code, chain, chain1,
                    obj, result, raised >>

\* the round that converges: lines 126-129 (break) and 137-150
SolveConverge ==
    /\ pc = "solve"
    /\ RoundsLeft(solve.i)
    /\ LET lighttime == LightTime(solve.distance)
           delta == lighttime - solve.lighttime0
       IN /\ Converged(delta)
          /\ solve' = [solve EXCEPT !.i = @ + 1, !.lighttime = lighttime]
          /\ result' = [kind |-> SolutionClass(obj.center),
                        position |-> VSub(solve.tposition, solve.cposition),
                        velocity |-> VSub(solve.tvelocity, solve.cvelocity),
                        lighttime |-> lighttime,
                        observer_position |-> solve.cposition,
                        observer_velocity |-> solve.cvelocity]
    /\ pc' = "done"
    /\ UNCHANGED << segments, isList, call, every, walk, code, chain, chain1,
                    obj, raised >>

\* the loop's else branch: lines 134-136
SolveDiverge ==
    /\ pc = "solve"
    /\ ~RoundsLeft(solve.i)
    /\ raised' = "ValueError"
    /\ pc' = "done"
    /\ UNCHANGED << segments, isList, call, every, walk, code, chain, chain1,
                    obj, result, solve >>

\* The caller drops what the last call returned; the segments stay.
Release ==
    /\ pc = "done"
    /\ pc' = "idle"
    /\ call' = NoCall
    /\ every' = << >>
    /\ walk' = 1
    /\ code' = 0
    /\ chain' = << >>
    /\ chain1' = << >>
    /\ obj' = NoObj
    /\ result' = NoResult
    /\ raised' = "None"
    /\ solve' = NoSolve
    /\ UNCHANGED << segments, isList >>

Next ==
    \/ \E c \in Codes, jd \in Times : CallAt(c, jd)
    \/ \E c \in Codes, b \in Codes : CallGeometryOf(c, b)
    \/ \E c \in Codes, b \in Codes, asBody \in BOOLEAN : CallObserve(c, b, asBody)
    \/ CenterStep
    \/ NextChain
    \/ ReturnAt
    \/ ReturnGeometryOf
    \/ ReturnObserve
    \/ \E jd \in Times : GeometryAt(jd)
    \/ \E jd \in Times : SolutionAt(jd)
    \/ SolveIterate
    \/ SolveConverge
    \/ SolveDiverge
    \/ Release

Spec == Init /\ [][Next]_vars

\* ------------------------------------------------- reference definitions
\* The forest the segments describe, read off the segment set itself.
SegSet(segs) == { segs[k] : k \in 1..Len(segs) }
HasParent(segs, c) == \E s \in SegSet(segs) : s.target = c
SegOf(segs, c) == CHOOSE s \in SegSet(segs) : s.target = c

\* The body the walk from c ends at, or -1 when it runs into a cycle.
RECURSIVE RootFrom(_, _, _)
RootFrom(segs, c, fuel) ==
    IF ~HasParent(segs, c) THEN c
    ELSE IF fuel = 0 THEN -1
    ELSE RootFrom(segs, SegOf(segs, c).center, fuel - 1)
RootOf(segs, c) == RootFrom(segs, c, Cardinality(SegSet(segs)))

Acyclic(segs) == \A s \in SegSet(segs) : RootOf(segs, s.target) # -1
IsForest0(segs) == \A s \in SegSet(segs) : RootOf(segs, s.target) = 0
Bodies(segs) == {0} \cup { s.target : s \in SegSet(segs) }

\* Number of segments between c and its root (c not on a cycle).
RECURSIVE Depth(_, _)
Depth(segs, c) ==
    IF ~HasParent(segs, c) THEN 0 ELSE 1 + Depth(segs, SegOf(segs, c).center)

\* Sum of compute(jd) over the segments between c and its root.
RECURSIVE PathSum(_, _, _)
PathSum(segs, c, jd) ==
    IF ~HasParent(segs, c) THEN << Zero3, Zero3 >>
    ELSE LET up == PathSum(segs, SegOf(segs, c).center, jd)
             pv == compute(SegOf(segs, c), jd)
         IN << VAdd(up[1], pv[1]), VAdd(up[2], pv[2]) >>

PairSub(a, b) == << VSub(a[1], b[1]), VSub(a[2], b[2]) >>

\* The bodies on the way from c up to its root, c included.
RECURSIVE Ancestors(_, _)
Ancestors(segs, c) ==
    IF ~HasParent(segs, c) THEN {c}
    ELSE {c} \cup Ancestors(segs, SegOf(segs, c).center)

\* Number of segments the root-to-a and root-to-b chains have in common.
CommonDepth(segs, a, b) ==
    Cardinality({ x \in Ancestors(segs, a) \cap Ancestors(segs, b) : HasParent(segs, x) })

\* compute gives the same answer at every time the solver can ask for
StationaryChain(ch) ==
    \A k \in 1..Len(ch) :
        \A jd \in (LastTime - TimeSpan - MaxRounds)..LastTime :
            compute(ch[k], jd) = compute(ch[k], LastTime)

AfterCall(op) == pc = "done" /\ call.op = op

\* ---------------------------------------------------------------- claims

\* C1: for a segment set that is a forest rooted at body 0 and a body c of
\* it, Body(c).at(t) is the component-wise sum of compute(t) over exactly the
\* segments on the path from 0 to c, each once, whatever the depth of c; with
\* S1 and S2 of the scenario, Body(399).at(5) is (5,1,0), (1,0,0).
C1_BodyAtIsPathSum ==
    (AfterCall("at") /\ IsForest0(segments) /\ call.self \in Bodies(segments))
    => /\ raised = "None"
       /\ result.kind = "Barycentric"
       /\ << result.position, result.velocity >> = PathSum(segments, call.self, call.jd)
       /\ Len(chain) = Depth(segments, call.self)
       /\ \A j, k \in 1..Len(chain) : j # k => chain[j] # chain[k]
       /\ (call.self = 399 /\ call.jd = 5)
              => (result.position = <<5, 1, 0>> /\ result.velocity = <<1, 0, 0>>)

C1_Witness ==
    /\ AfterCall("at")
    /\ IsForest0(segments)
    /\ call.self = 399
    /\ call.jd = 5
    /\ Len(chain) = 2
    /\ result.position = <<5, 1, 0>>
    /\ result.velocity = <<1, 0, 0>>

\* C2: for two (different) bodies whose chains share the same root, A.geometry_of(B)
\* gives a Geometry that evaluates at every time to Body(B).at minus
\* Body(A).at, and the number of leading segments stripped is the length of
\* the common prefix of the two root-to-body chains.
C2_GeometryIsDifference ==
    (AfterCall("geometry_of") /\ Acyclic(segments)
        /\ call.self # call.other
        /\ RootOf(segments, call.self) = RootOf(segments, call.other))
    => /\ raised = "None"
       /\ obj.kind = "Geometry"
       /\ \A jd \in Times :
              Tally(obj.center_chain, obj.target_chain, jd)
                  = PairSub(PathSum(segments, call.other, jd),
                            PathSum(segments, call.self, jd))
       /\ Len(chain1) - Len(obj.center_chain)
              = CommonDepth(segments, call.self, call.other)

\* C3: chain resolution never takes more than |segments| steps (on a cyclic
\* segment set it fails instead of going on), and on a valid segment set it
\* ends at the root.
C3_ResolutionBounded ==
    /\ pc = "center" => Len(chain) <= Cardinality(SegSet(every))
    /\ (pc = "center" /\ IsForest0(every)
            /\ (IF walk = 1 THEN call.self ELSE call.other) \in Bodies(every)
            /\ ~HasParent(every, code))
       => code = 0

\* C4: Solution.at returns only when, in one of at most 10 rounds, the new
\* light-time is within the tolerance of the previous estimate; otherwise it
\* raises after exactly 10 rounds, the target chain having been re-evaluated
\* 10 times after the initial tally.
C4_ConvergedOrDiverged ==
    /\ pc = "solve" => (solve.i <= MaxRounds /\ solve.target_tallies = solve.i + 1)
    /\ AfterCall("solution_at")
       => \/ /\ result.kind # "None"
             /\ raised = "None"
             /\ solve.i \in 1..MaxRounds
             /\ solve.target_tallies = solve.i
             /\ result.lighttime = solve.lighttime
             /\ solve.lighttime - solve.lighttime0 < Tolerance
             /\ solve.lighttime0 - solve.lighttime < Tolerance
          \/ /\ result.kind = "None"
             /\ raised = "ValueError"
             /\ solve.i = MaxRounds
             /\ solve.target_tallies = MaxRounds + 1

C4_Witness ==
    /\ AfterCall("solution_at")
    /\ raised = "ValueError"
    /\ solve.i = MaxRounds

\* C5: no call changes the segment collection the bodies and the ephemeris
\* share.
C5_SegmentsUnchanged == [][segments' = segments]_vars

\* C6: Body.observe either returns a Solution whose two chains both start
\* with a segment centered on 0, or raises the ValueError of line 49; two
\* bodies with different roots always get that ValueError.
C6_SolutionOrNoCommonCenter ==
    AfterCall("observe")
    => /\ \/ raised = "ValueError"
          \/ /\ raised = "None"
             /\ obj.kind = "Solution"
             /\ obj.center_chain # << >> /\ obj.center_chain[1].center = 0
             /\ obj.target_chain # << >> /\ obj.target_chain[1].center = 0
       /\ RootOf(segments, call.self) # RootOf(segments, call.other)
              => raised = "ValueError"

\* C7: Body.at raises, and returns no position, for a body that is neither
\* 0 nor the target of a segment, or whose chain ends at a body other than 0.
C7_UnknownBodyRejected ==
    (AfterCall("at") /\ (call.self \notin Bodies(segments)
                            \/ RootOf(segments, call.self) # 0))
    => (raised # "None" /\ result.kind = "None")

\* C8 as stated: for stationary chains at separation d, Solution.at converges
\* with light-time d / c after exactly one re-evaluation of the target chain
\* (in the second round), and the position is target minus center.
C8_StationaryOneReevaluation ==
    (AfterCall("solution_at") /\ StationaryChain(obj.center_chain)
        /\ StationaryChain(obj.target_chain))
    => LET rel == PairSub(PathSum(segments, obj.target, call.jd),
                          PathSum(segments, obj.center, call.jd))
       IN /\ result.kind # "None"
          /\ result.lighttime = length_of(rel[1]) \div C_AUDAY
          /\ result.position = rel[1]
          /\ result.velocity = rel[2]
          /\ solve.i = 2
          /\ solve.target_tallies = 2

\* C8 amended: for stationary chains at separation d, Solution.at converges
\* with light-time d / c and position target minus center; after exactly one
\* re-evaluation of the target chain (second round) when d / c is at least
\* the tolerance, and in the first round with no re-evaluation when d / c is
\* below the tolerance.
C8_StationaryConvergence ==
    (AfterCall("solution_at") /\ StationaryChain(obj.center_chain)
        /\ StationaryChain(obj.target_chain))
    => LET rel == PairSub(PathSum(segments, obj.target, call.jd),
                          PathSum(segments, obj.center, call.jd))
           lt == length_of(rel[1]) \div C_AUDAY
       IN /\ result.kind # "None"
          /\ result.lighttime = lt
          /\ result.position = rel[1]
          /\ result.velocity = rel[2]
          /\ lt >= Tolerance => (solve.i = 2 /\ solve.target_tallies = 2)
          /\ lt < Tolerance => (solve.i = 1 /\ solve.target_tallies = 1)

C8_Witness ==
    /\ AfterCall("solution_at")
    /\ obj.center # obj.target
    /\ StationaryChain(obj.center_chain)
    /\ StationaryChain(obj.target_chain)
    /\ result.lighttime >= Tolerance
    /\ solve.target_tallies = 2

\* C9: in Solution.at the center chain is tallied once, at the nominal time,
\* and keeps that value; only the target chain is tallied again, each time at
\* the nominal time minus the current light-time; the observer position and
\* velocity of the result are the nominal-time center tally.
C9_CenterHeldAtNominalTime ==
    /\ (pc = "solve" \/ AfterCall("solution_at"))
       => /\ solve.center_tallies = 1
          /\ << solve.cposition, solve.cvelocity >>
                 = Tally(<< >>, obj.center_chain, call.jd)
          /\ << solve.tposition, solve.tvelocity >>
                 = Tally(<< >>, obj.target_chain,
                         IF solve.target_tallies = 1 THEN call.jd
                         ELSE call.jd - solve.lighttime0)
    /\ (AfterCall("solution_at") /\ result.kind # "None")
       => << result.observer_position, result.observer_velocity >>
              = Tally(<< >>, obj.center_chain, call.jd)

C9_Witness ==
    /\ pc = "solve"
    /\ solve.target_tallies >= 3
    /\ solve.lighttime0 > 0
    /\ solve.tposition # Tally(<< >>, obj.target_chain, call.jd)[1]

\* C10: for the body 0 and a body B rooted at 0, geometry_of returns a
\* Geometry with an empty center chain and B's full chain, whose at(t) is
\* Barycentric and equals Body(B).at(t); a Geometry whose center is not 0
\* evaluates to the ICRS kind.
C10_RootCenteredGeometry ==
    /\ (AfterCall("geometry_of") /\ call.self = 0 /\ Acyclic(segments)
            /\ HasParent(segments, call.other)
            /\ RootOf(segments, call.other) = 0)
       => /\ raised = "None"
          /\ obj.kind = "Geometry"
          /\ obj.center_chain = << >>
          /\ Len(obj.target_chain) = Depth(segments, call.other)
    /\ (AfterCall("geometry_at") /\ obj.center = 0)
       => /\ result.kind = "Barycentric"
          /\ << result.position, result.velocity >>
                 = PathSum(segments, obj.target, call.jd)
    /\ (AfterCall("geometry_at") /\ obj.center # 0) => result.kind = "ICRS"

====
